---------------------------- MODULE Spec2Model ----------------------------
(***************************************************************************)
(* termux-apt-repo (src/main.go): the repository indexing pipeline.        *)
(*                                                                         *)
(* One run of main(): discover the .deb files of the input tree, place     *)
(* each one under <dist>/<component>/binary-<arch>/ and append its file    *)
(* list to <dist>/<component>/Contents-<arch>; create Release and write    *)
(* its header; generate Packages and Packages.xz for every binary-*        *)
(* directory of every registered component and compress the content        *)
(* indexes; write the Components line and the four digest tables.          *)
(*                                                                         *)
(* A path is a sequence of tokens: the separator "/" and the names between *)
(* separators, so "in/a/b.deb" is <<"in", "/", "a", "/", "b.deb">>.         *)
(* path/filepath and strings.TrimPrefix work on these sequences as they do *)
(* on the characters of the Go string. No path of the model holds "..".    *)
(***************************************************************************)
EXTENDS Integers, Sequences, FiniteSets, TLC

(* ------------------------------ bounds -------------------------------- *)

\* The largest number of .deb files in the input tree.
MaxDebs == 2

\* The largest number of environment faults (a failing read, stat, open or
\* compression) one run meets.
MaxFaults == 1

(* ------------------------- strings and paths -------------------------- *)

Sep == "/"

Last(s) == s[Len(s)]

RECURSIVE Interleave(_)
\* strings.Join(names, "/") of a list of names.
Interleave(names) ==
    IF names = <<>> THEN <<>>
    ELSE IF Len(names) = 1 THEN <<names[1]>>
    ELSE <<names[1], Sep>> \o Interleave(Tail(names))

\* The names of a path: its tokens but the separators.
Segments(p) == SelectSeq(p, LAMBDA t : t # Sep)

IsAbs(p) == Len(p) > 0 /\ p[1] = Sep

\* filepath.Clean: separators collapsed, "." elements and a trailing separator
\* dropped; the empty path is ".".
Clean(p) ==
    LET segs == SelectSeq(p, LAMBDA t : t # Sep /\ t # ".")
    IN  IF IsAbs(p) THEN <<Sep>> \o Interleave(segs)
        ELSE IF segs = <<>> THEN <<".">>
        ELSE Interleave(segs)

RECURSIVE SepJoin(_)
SepJoin(elems) ==
    IF elems = <<>> THEN <<>>
    ELSE IF Len(elems) = 1 THEN elems[1]
    ELSE elems[1] \o <<Sep>> \o SepJoin(Tail(elems))

RECURSIVE DropEmpty(_)
DropEmpty(elems) ==
    IF elems = <<>> THEN <<>>
    ELSE IF Head(elems) = <<>> THEN DropEmpty(Tail(elems))
    ELSE elems

\* filepath.Join: the elements from the first non-empty one on, joined by the
\* separator and cleaned; "" when every element is empty.
Join(elems) ==
    LET rest == DropEmpty(elems)
    IN  IF rest = <<>> THEN <<>> ELSE Clean(SepJoin(rest))

\* The index of the last separator of p, 0 when it has none.
LastSep(p) ==
    LET at == {i \in 1..Len(p) : p[i] = Sep}
    IN  IF at = {} THEN 0 ELSE CHOOSE i \in at : \A j \in at : j <= i

\* filepath.Dir: all but the last element, cleaned.
Dir(p) == Clean(SubSeq(p, 1, LastSep(p)))

RECURSIVE StripTrailingSep(_)
StripTrailingSep(p) ==
    IF Len(p) > 0 /\ Last(p) = Sep THEN StripTrailingSep(SubSeq(p, 1, Len(p) - 1))
    ELSE p

\* filepath.Base: the last element (a name), "." for the empty path and "/"
\* for a path of separators only.
Base(p) ==
    IF p = <<>> THEN "."
    ELSE LET q == StripTrailingSep(p)
         IN  IF q = <<>> THEN Sep ELSE Last(q)

HasPrefix(s, prefix) ==
    Len(s) >= Len(prefix) /\ SubSeq(s, 1, Len(prefix)) = prefix

\* strings.TrimPrefix
TrimPrefix(s, prefix) ==
    IF HasPrefix(s, prefix) THEN SubSeq(s, Len(prefix) + 1, Len(s)) ELSE s

\* The byte order of the names the model uses: filepath.Glob and
\* ioutil.ReadDir return names sorted, sort.Strings sorts the architectures.
NameOrder ==
    <<"Contents-aarch64", "Contents-aarch64.xz", "Contents-all", "Contents-all.xz",
      "Contents-arm", "Contents-arm.xz", "Contents-mips", "Contents-mips.xz",
      "InRelease", "Packages", "Packages.xz", "Release",
      "aarch64", "all", "arm", "baz.deb",
      "binary-aarch64", "binary-all", "binary-arm", "binary-mips",
      "dists", "extras", "foo.deb", "in", "mips", "old", "out", "termux">>

RankOf == [n \in {NameOrder[i] : i \in 1..Len(NameOrder)} |->
             CHOOSE i \in 1..Len(NameOrder) : NameOrder[i] = n]

Rank(n) == RankOf[n]

RECURSIVE SortNames(_)
\* The names of a set in byte order.
SortNames(S) ==
    IF S = {} THEN <<>>
    ELSE LET m == CHOOSE x \in S : \A y \in S : Rank(x) <= Rank(y)
         IN  <<m>> \o SortNames(S \ {m})


RECURSIVE LexLess(_, _)
\* p before q in the order of their names, element by element.
LexLess(p, q) ==
    IF p = <<>> \/ q = <<>> THEN p = <<>> /\ q # <<>>
    ELSE IF Head(p) = Head(q) THEN LexLess(Tail(p), Tail(q))
    ELSE Rank(Head(p)) < Rank(Head(q))

RECURSIVE SortPaths(_)
SortPaths(S) ==
    IF S = {} THEN <<>>
    ELSE LET m == CHOOSE x \in S : \A y \in S \ {x} : LexLess(Segments(x), Segments(y))
         IN  <<m>> \o SortPaths(S \ {m})

(* --------------------------- configuration ---------------------------- *)

supportedArches == <<"all", "arm", "aarch64">>

hashes == <<"md5", "sha1", "sha256", "sha512">>

\* --output, --distribution and --component (the flags' defaults for the
\* last two).
outputPath == <<"out">>

distribution == "termux"

defaultComponent == <<"extras">>

\* The forms of --input the runs are given, all naming the directory in.
InputForms == {<<"in">>, <<"in", Sep>>, <<".", Sep, "in">>}

\* The input directory as the file system names it.
InputDir == <<"in">>

contains(slice, item) == \E i \in 1..Len(slice) : slice[i] = item

\* Every architecture name a control record of the model declares.
ArchNames == {"all", "arm", "aarch64", "mips"}

BinaryNames == {"binary-" \o a : a \in ArchNames}

ContentsNames == {"Contents-" \o a : a \in ArchNames}
                     \cup {"Contents-" \o a \o ".xz" : a \in ArchNames}

DebNames == {"foo.deb", "baz.deb"}

\* path.Match of one name against one pattern element.
MatchName(pat, name) ==
    CASE pat = "*" -> name # Sep
      [] pat = "*.deb" -> name \in DebNames
      [] pat = "binary-*" -> name \in BinaryNames
      [] pat = "Contents-*" -> name \in ContentsNames
      [] OTHER -> pat = name

\* filepath.Glob over the paths that exist: those matching the pattern
\* element by element, sorted; the error is dropped as glob() drops it.
glob(pattern, paths) ==
    SortPaths({p \in paths :
                 /\ Len(p) = Len(pattern)
                 /\ \A i \in 1..Len(p) : MatchName(pattern[i], p[i])})

(* ----------------------------- packages ------------------------------- *)

\* The .deb files of the model: the control record as its lines (field,
\* value), the entries of tar -t on data.tar.xz, and the byte size.
DebA == [kind |-> "deb", size |-> 11,
         control |-> << <<"Package", "a">>, <<"Version", "1">>, <<"Architecture", "all">> >>,
         data |-> << <<".", Sep, "usr", Sep>>, <<".", Sep, "usr", Sep, "a">> >>]

DebD == [kind |-> "deb", size |-> 12,
         control |-> << <<"Package", "d">>, <<"Architecture", "all">> >>,
         data |-> << <<".", Sep, "usr", Sep, "d">> >>]

DebB == [kind |-> "deb", size |-> 13,
         control |-> << <<"Package", "b">>, <<"Architecture", "arm">> >>,
         data |-> << <<".", Sep, "b1">>, <<".", Sep, "b2">> >>]

DebM == [kind |-> "deb", size |-> 14,
         control |-> << <<"Package", "m">>, <<"Architecture", "mips">> >>,
         data |-> << <<".", Sep, "m">> >>]

DebNoPackage == [kind |-> "deb", size |-> 15,
                 control |-> << <<"Version", "1">>, <<"Architecture", "mips">> >>,
                 data |-> << <<".", Sep, "n">> >>]

DebNoArch == [kind |-> "deb", size |-> 16,
              control |-> << <<"Package", "x">>, <<"Version", "1">> >>,
              data |-> << <<".", Sep, "x">> >>]

DebUniverse == {DebA, DebD, DebB, DebM, DebNoPackage, DebNoArch}

\* Where the input tree may hold a .deb: in the root and one level down, in
\* a subdirectory that has the default component's name, so that root-level
\* and subdirectory packages can meet in one component.
InputSlots ==
    {InputDir \o <<Sep, "foo.deb">>,
     InputDir \o <<Sep, "extras", Sep, "foo.deb">>,
     InputDir \o <<Sep, "extras", Sep, "baz.deb">>}

\* regexp.MustCompile(field + ": (.*)").FindStringSubmatch(control): the first
\* line of the field as <<match, value>>, nil (<<>>) when there is none.
FindStringSubmatch(field, control) ==
    LET at == {i \in 1..Len(control) : control[i][1] = field}
    IN  IF at = {} THEN <<>>
        ELSE LET i == CHOOSE k \in at : \A j \in at : k <= j
             IN  <<control[i], control[i][2]>>

\* listPackageFiles: the entries that do not end in a separator, less a
\* leading "./".
RECURSIVE listPackageFiles(_)
listPackageFiles(entries) ==
    IF entries = <<>> THEN <<>>
    ELSE LET file == Head(entries)
         IN  (IF Len(file) > 0 /\ Last(file) # Sep
              THEN <<TrimPrefix(file, <<".", Sep>>)>> ELSE <<>>)
             \o listPackageFiles(Tail(entries))

(* ---------------------------- file system ----------------------------- *)

distributionPath == Join(<<outputPath, <<"dists">>, <<distribution>>>>)

\* The file system with no file.
NoFiles == [q \in {} |-> <<>>]

\* q is p or lies below it.
Under(q, p) == q = p \/ HasPrefix(q, p \o <<Sep>>)

\* os.Stat(p) succeeds.
Exists(p, files, dirs) == p \in dirs \/ p \in DOMAIN files

\* os.RemoveAll(p): the files and the directories left.
RemoveAllFiles(p, files) == [q \in {r \in DOMAIN files : ~Under(r, p)} |-> files[q]]

RemoveAllDirs(p, dirs) == {q \in dirs : ~Under(q, p)}

\* os.MkdirAll(p): p and its ancestors.
MkdirAll(p, dirs) ==
    dirs \cup {SubSeq(p, 1, i) : i \in {j \in 1..Len(p) : p[j] # Sep}}

\* A file created or rewritten.
WriteFile(p, content, files) ==
    [q \in DOMAIN files \cup {p} |-> IF q = p THEN content ELSE files[q]]

\* filterDirs: the names of the directories right below root, as ReadDir
\* sorts them.
filterDirs(root, dirs) ==
    LET names == {Last(d) : d \in {e \in dirs : Len(e) = Len(root) + 2 /\ Under(e, root)}}
    IN  SortNames(names)

\* The byte size of a file: a package's own, and for a generated text the
\* number of its records (its compressed form one more).
RECURSIVE SizeOf(_)
SizeOf(content) ==
    CASE content.kind = "deb" -> content.size
      [] content.kind = "contents" -> Len(content.rows)
      [] content.kind = "packages" -> Len(content.entries)
      [] content.kind = "xz" -> SizeOf(content.of) + 1
      [] OTHER -> 1

\* fileSize: 0 when the stat fails.
fileSize(p, files, statFails) ==
    IF statFails \/ p \notin DOMAIN files THEN 0 ELSE SizeOf(files[p])

\* hashFile: the digest of the file's bytes under the algorithm, nil (<<>>)
\* when the file cannot be opened. The digest stands for the bytes by their
\* kind and size: the packages of the model all differ in size.
hashFile(hashType, p, files, openFails) ==
    IF openFails \/ p \notin DOMAIN files THEN <<>>
    ELSE <<hashType, files[p].kind, SizeOf(files[p])>>

\* The label of a digest line or table.
hashString(hashType) ==
    CASE hashType = "md5" -> "MD5Sum"
      [] hashType = "sha1" -> "SHA1"
      [] hashType = "sha256" -> "SHA256"
      [] hashType = "sha512" -> "SHA512"

\* mapKeys: the keys sorted.
mapKeys(m) == SortNames(m)

(* ------------------------ generated artifacts ------------------------- *)

\* strings.Split(filepath.Base(archDirPath), "-")[1]
ArchOfBinary(name) == CHOOSE a \in ArchNames : name = "binary-" \o a

RECURSIVE ContentsRows(_, _)
\* The rows addDeb appends for the listed files of one package.
ContentsRows(listed, pkgName) ==
    IF listed = <<>> THEN <<>>
    ELSE <<[path |-> Head(listed), pkg |-> pkgName]>> \o ContentsRows(Tail(listed), pkgName)

\* The content index after an append (O_APPEND|O_CREATE).
AppendContents(p, rows, files) ==
    WriteFile(p, [kind |-> "contents",
                  rows |-> (IF p \in DOMAIN files THEN files[p].rows ELSE <<>>) \o rows],
              files)

\* One entry of Packages: the control text, Filename, Size and a digest per
\* algorithm. fault is <<>> or <<"stat">> or <<"hash", algorithm>>.
PackagesEntry(debToReadPath, component, binaryPath, files, fault) ==
    [control  |-> files[debToReadPath].control,
     filename |-> Join(<<<<"dists">>, <<distribution>>, component, <<binaryPath>>,
                         <<Base(debToReadPath)>>>>),
     size     |-> fileSize(debToReadPath, files, fault = <<"stat">>),
     digests  |-> [h \in {hashes[i] : i \in 1..Len(hashes)} |->
                     hashFile(h, debToReadPath, files, fault = <<"hash", h>>)]]

RECURSIVE PackagesEntries(_, _, _, _, _, _)
\* The entries of the packages of one binary-* directory, in glob order;
\* the fault, if any, strikes the package at index faultAt.
PackagesEntries(debs, component, binaryPath, files, faultAt, fault) ==
    IF debs = <<>> THEN <<>>
    ELSE <<PackagesEntry(Head(debs), component, binaryPath, files,
                         IF faultAt = 1 THEN fault ELSE <<>>)>>
         \o PackagesEntries(Tail(debs), component, binaryPath, files,
                            IF faultAt = 0 THEN 0 ELSE faultAt - 1, fault)

\* compressXz(in, in + ".xz")
compressXz(p, files) ==
    WriteFile(SubSeq(p, 1, Len(p) - 1) \o <<Last(p) \o ".xz">>,
              [kind |-> "xz", of |-> files[p]], files)

RECURSIVE CompressAll(_, _)
CompressAll(ps, files) ==
    IF ps = <<>> THEN files ELSE CompressAll(Tail(ps), compressXz(Head(ps), files))

\* The Packages file of one binary-* directory written and compressed.
WritePackages(archDirPath, component, files, faultAt, fault) ==
    LET debs == glob(archDirPath \o <<Sep, "*.deb">>, DOMAIN files)
        packagesFilePath == Join(<<archDirPath, <<"Packages">>>>)
        arch == ArchOfBinary(Base(archDirPath))
        entries == PackagesEntries(debs, component, "binary-" \o arch, files, faultAt, fault)
    IN  compressXz(packagesFilePath,
                   WriteFile(packagesFilePath,
                             [kind |-> "packages", entries |-> entries], files))

RECURSIVE ArchDirTargets(_, _)
\* What the tables list for the binary-* directories of a component:
\* Packages and Packages.xz of each, shown as component/binary-<arch>/<file>.
ArchDirTargets(component, archDirs) ==
    IF archDirs = <<>> THEN <<>>
    ELSE LET archDirPath == Head(archDirs)
             target(f) == [file  |-> Join(<<archDirPath, <<f>>>>),
                           shown |-> Join(<<component, <<Base(archDirPath)>>, <<f>>>>)]
         IN  <<target("Packages"), target("Packages.xz")>>
             \o ArchDirTargets(component, Tail(archDirs))

RECURSIVE ContentsTargets(_)
\* What the tables list for the content indexes of a component: each file,
\* shown as the path the glob returned.
ContentsTargets(contentsFiles) ==
    IF contentsFiles = <<>> THEN <<>>
    ELSE <<[file |-> Head(contentsFiles), shown |-> Head(contentsFiles)]>>
         \o ContentsTargets(Tail(contentsFiles))

RECURSIVE TableTargets(_, _)
\* The files one digest table lists, in order (lines 301-317). The tree does
\* not change while the tables are written, so the four tables list the same.
TableTargets(components, all) ==
    IF components = <<>> THEN <<>>
    ELSE LET component == Head(components)
         IN  ArchDirTargets(component,
                 glob(Join(<<distributionPath, component, <<"binary-*">>>>), all))
             \o ContentsTargets(
                 glob(Join(<<distributionPath, component, <<"Contents-*">>>>), all))
             \o TableTargets(Tail(components), all)

\* A row of a digest table.
ReleaseRow(hashType, target, files) ==
    [hash   |-> hashString(hashType),
     digest |-> hashFile(hashType, target.file, files, FALSE),
     size   |-> fileSize(target.file, files, FALSE),
     path   |-> target.shown]

\* The four digest tables, one after the other.
ReleaseTables(components, files, dirs) ==
    LET targets == TableTargets(components, dirs \cup DOMAIN files)
        table(h) == [i \in 1..Len(targets) |-> ReleaseRow(hashes[h], targets[i], files)]
    IN  table(1) \o table(2) \o table(3) \o table(4)

RECURSIVE NamesAsPaths(_)
NamesAsPaths(names) ==
    IF names = <<>> THEN <<>> ELSE <<<<Head(names)>>>> \o NamesAsPaths(Tail(names))

releaseFilePath == Join(<<distributionPath, <<"Release">>>>)

\* Release as os.Create and the header lines leave it.
ReleaseHeader(run, arches) ==
    [kind |-> "release", run |-> run, archs |-> mapKeys(arches),
     components |-> <<>>, rows |-> <<>>, complete |-> FALSE]

\* Release with the Components line and the tables written.
ReleaseComplete(header, components, files, dirs) ==
    [header EXCEPT !.components = components,
                   !.rows = ReleaseTables(components, files, dirs),
                   !.complete = TRUE]

(* --------------------- the tree of earlier runs ----------------------- *)

\* The components an earlier run may have left in the output tree, each
\* with one package: what a run of --input in/ leaves.
PriorNames == {"old", "extras"}

PriorDeb(c) == IF c = "old" THEN DebB ELSE DebA

PriorBase(c) == IF c = "old" THEN "baz.deb" ELSE "foo.deb"

PriorArch(c) == FindStringSubmatch("Architecture", PriorDeb(c).control)[2]

RECURSIVE PriorPlaced(_, _)
PriorPlaced(cs, files) ==
    IF cs = {} THEN files
    ELSE LET c == CHOOSE x \in cs : TRUE
             archDir == Join(<<distributionPath, <<c>>, <<"binary-" \o PriorArch(c)>>>>)
             deb == PriorDeb(c)
             f1 == WriteFile(Join(<<archDir, <<PriorBase(c)>>>>), deb, files)
             f2 == AppendContents(
                       Join(<<distributionPath, <<c>>, <<"Contents-" \o PriorArch(c)>>>>),
                       ContentsRows(listPackageFiles(deb.data),
                                    FindStringSubmatch("Package", deb.control)[2]), f1)
             f3 == WritePackages(archDir, <<c>>, f2, 0, <<>>)
             f4 == compressXz(Join(<<distributionPath, <<c>>,
                                     <<"Contents-" \o PriorArch(c)>>>>), f3)
         IN  PriorPlaced(cs \ {c}, f4)

PriorDirs(cs) ==
    UNION {MkdirAll(Join(<<distributionPath, <<c>>, <<"binary-" \o PriorArch(c)>>>>), {})
             : c \in cs}

PriorFiles(cs) ==
    IF cs = {} THEN NoFiles
    ELSE LET files == PriorPlaced(cs, NoFiles)
             dirs == PriorDirs(cs)
         IN  WriteFile(releaseFilePath,
                       ReleaseComplete(ReleaseHeader("previous", {PriorArch(c) : c \in cs}),
                                       NamesAsPaths(filterDirs(distributionPath, dirs)),
                                       files, dirs),
                       files)

(* ------------------------------- state -------------------------------- *)

VARIABLES
    inputPath,          \* --input as given
    useHardLinks,       \* --use-hard-links
    inFiles,            \* the input tree: path |-> .deb file
    prior,              \* the components an earlier run left in the output tree
    fsFiles,            \* the output tree's files: path |-> content
    fsDirs,             \* the output tree's directories
    COMPONENTS,         \* the component registry
    encounteredArches,  \* the keys of the architecture registry
    debsInPath,         \* the discovered packages, in processing order
    next,               \* the index in debsInPath of the package to process
    compIdx,            \* the index in COMPONENTS of the component being indexed
    archQueue,          \* the binary-* directories of that component still to index
    pc,                 \* "start", "place", "release", "index", "tables", "done"
                        \* or "exit"
    exitCode,           \* the process's exit code, -1 while it runs
    stderr,             \* the last message on the error stream
    faults,             \* the environment faults met so far
    placed,             \* log: the packages addDeb has placed
    removed,            \* log: the os.RemoveAll calls made
    damaged             \* log: the packages whose stat or open failed while indexing

vars == <<inputPath, useHardLinks, inFiles, prior, fsFiles, fsDirs, COMPONENTS,
          encounteredArches, debsInPath, next, compIdx, archQueue, pc, exitCode,
          stderr, faults, placed, removed, damaged>>

config == <<inputPath, useHardLinks, inFiles, prior>>

NoMessage == [msg |-> "", file |-> ""]

Init ==
    /\ prior \in SUBSET PriorNames
    /\ fsFiles = PriorFiles(prior)
    /\ fsDirs = PriorDirs(prior)
    /\ inputPath \in InputForms
    /\ useHardLinks \in BOOLEAN
    /\ \E S \in SUBSET InputSlots :
          /\ Cardinality(S) <= MaxDebs
          /\ inFiles \in [S -> DebUniverse]
    /\ COMPONENTS = <<>>
    /\ encounteredArches = {}
    /\ debsInPath = <<>>
    /\ next = 1
    /\ compIdx = 1
    /\ archQueue = <<>>
    /\ pc = "start"
    /\ exitCode = -1
    /\ stderr = NoMessage
    /\ faults = 0
    /\ placed = <<>>
    /\ removed = <<>>
    /\ damaged = <<>>

\* os.Exit(code) after a message on the error stream.
Exit(code, msg, file) ==
    /\ pc' = "exit"
    /\ exitCode' = code
    /\ stderr' = [msg |-> msg, file |-> file]

\* The algorithms under which the model lets an open for hashing fail.
FaultHashes == {"sha256"}

\* The faults the environment may still raise, among kinds. The model raises
\* those of the adapter (a control record that cannot be read), of the index
\* pass (a failing stat, open or compression) and of the creation of Release.
MayFail(kinds) == IF faults < MaxFaults THEN kinds ELSE {}

(* ------------------------------ discovery ----------------------------- *)

\* main, lines 202-217: the packages of the input root, then those one
\* directory down; none at all ends the run with a
\* message that shows --input as it was given.
Start ==
    /\ pc = "start"
    /\ LET debs == glob(Join(<<inputPath, <<"*.deb">>>>), DOMAIN inFiles)
                   \o glob(Join(<<inputPath, <<"*", Sep, "*.deb">>>>), DOMAIN inFiles)
       IN  IF Len(debs) = 0
           THEN /\ Exit(1, "No .deb file found", inputPath)
                /\ UNCHANGED debsInPath
           ELSE /\ debsInPath' = debs
                /\ pc' = "place"
                /\ UNCHANGED <<exitCode, stderr>>
    /\ UNCHANGED <<config, fsFiles, fsDirs, COMPONENTS, encounteredArches, next,
                   compIdx, archQueue, faults, placed, removed, damaged>>

(* ---------------------------- tree builder ---------------------------- *)

\* The component main derives for a package (lines 220-223).
ComponentOf(debPath, input) ==
    LET component == Dir(TrimPrefix(debPath, input))
    IN  IF component = <<".">> THEN defaultComponent ELSE component

\* The registration left out: the registry stays as it is.
RegisterArchDropped(arches, debArch) == arches

\* encounteredArches[debArch] = true
RegisterArch(arches, debArch) == arches \cup {debArch}

\* The package file materialized (lines 137-144): os.Link fails on an
\* existing destination and its error is dropped; copyFile rewrites it.
Materialize(src, dst, hardLinks, files) ==
    IF hardLinks /\ dst \in DOMAIN files THEN files ELSE WriteFile(dst, src, files)

\* One turn of the loop of main, lines 219-231, with addDeb, lines 113-156.
AddDeb ==
    /\ pc = "place"
    /\ LET debPath == debsInPath[next]
           component == ComponentOf(debPath, inputPath)
           fresh == ~contains(COMPONENTS, component)
           componentDir == Join(<<distributionPath, component>>)
           wipe == fresh /\ Exists(componentDir, fsFiles, fsDirs)
           files1 == IF wipe THEN RemoveAllFiles(componentDir, fsFiles) ELSE fsFiles
           dirs1 == IF wipe THEN RemoveAllDirs(componentDir, fsDirs) ELSE fsDirs
           deb == inFiles[debPath]
           name == FindStringSubmatch("Package", deb.control)
           arch == FindStringSubmatch("Architecture", deb.control)
           file == Base(debPath)
           Fail(code, msg, shown, files, dirs) ==
               /\ Exit(code, msg, shown)
               /\ fsFiles' = files
               /\ fsDirs' = dirs
               /\ UNCHANGED <<encounteredArches, next, placed>>
       IN  /\ COMPONENTS' = IF fresh THEN Append(COMPONENTS, component) ELSE COMPONENTS
           /\ removed' = IF wipe THEN Append(removed, [path |-> componentDir, at |-> next])
                         ELSE removed
           /\ \E fault \in {"none"} \cup MayFail({"control"}) :
                /\ faults' = IF fault = "none" THEN faults ELSE faults + 1
                /\ IF fault = "control"
                   THEN Fail(1, "Error listing contents", debPath, files1, dirs1)
                   ELSE IF name = <<>> \/ arch = <<>>
                   THEN \* FindStringSubmatch(...)[1] on nil: a run-time panic.
                        Fail(2, "panic: index out of range", "", files1, dirs1)
                   ELSE IF ~contains(supportedArches, arch[2])
                   THEN Fail(1, "Unsupported arch", file, files1, dirs1)
                   ELSE
                     LET debArch == arch[2]
                         archDirPath == Join(<<distributionPath, component,
                                               <<"binary-" \o debArch>>>>)
                         dirs2 == MkdirAll(archDirPath, dirs1)
                         destinationDebFile == Join(<<archDirPath, <<file>>>>)
                         files2 == Materialize(deb, destinationDebFile, useHardLinks, files1)
                         contentsPath == Join(<<distributionPath, component,
                                                <<"Contents-" \o debArch>>>>)
                         rows == ContentsRows(listPackageFiles(files2[destinationDebFile].data),
                                              name[2])
                     IN       /\ fsFiles' = AppendContents(contentsPath, rows, files2)
                              /\ fsDirs' = dirs2
                              /\ encounteredArches' = RegisterArch(encounteredArches, debArch)
                              /\ placed' = Append(placed,
                                               [deb |-> debPath, component |-> component,
                                                arch |-> debArch, dest |-> destinationDebFile])
                              /\ next' = next + 1
                              /\ pc' = IF next = Len(debsInPath) THEN "release" ELSE "place"
                              /\ UNCHANGED <<exitCode, stderr>>
    /\ UNCHANGED <<config, debsInPath, compIdx, archQueue, damaged>>

(* ------------------------- release and indexes ------------------------ *)

\* The binary-* directories of the component at index i of the registry.
ArchDirsOf(i, components, files, dirs) ==
    IF i > Len(components) THEN <<>>
    ELSE glob(Join(<<distributionPath, components[i], <<"binary-*">>>>),
              dirs \cup DOMAIN files)

\* main, lines 233-246: Release created (truncated) and its header written.
CreateRelease ==
    /\ pc = "release"
    /\ \E fault \in {"none"} \cup MayFail({"create"}) :
         IF fault = "create"
         THEN /\ Exit(1, "Error creating Release file", "")
              /\ faults' = faults + 1
              /\ UNCHANGED <<fsFiles, compIdx, archQueue>>
         ELSE /\ fsFiles' = WriteFile(releaseFilePath,
                                      ReleaseHeader("current", encounteredArches), fsFiles)
              /\ compIdx' = 1
              /\ archQueue' = ArchDirsOf(1, COMPONENTS, fsFiles, fsDirs)
              /\ pc' = "index"
              /\ UNCHANGED <<exitCode, stderr, faults>>
    /\ UNCHANGED <<config, fsDirs, COMPONENTS, encounteredArches, debsInPath, next,
                   placed, removed, damaged>>

\* main, lines 249-283: Packages and Packages.xz of one binary-* directory.
GenPackages ==
    /\ pc = "index"
    /\ archQueue # <<>>
    /\ LET archDirPath == Head(archQueue)
           component == COMPONENTS[compIdx]
           packagesFilePath == Join(<<archDirPath, <<"Packages">>>>)
           debs == glob(archDirPath \o <<Sep, "*.deb">>, DOMAIN fsFiles)
           written(n) ==
               WriteFile(packagesFilePath,
                         [kind |-> "packages",
                          entries |-> PackagesEntries(SubSeq(debs, 1, n), component,
                                          "binary-" \o ArchOfBinary(Base(archDirPath)),
                                          fsFiles, 0, <<>>)],
                         fsFiles)
       IN  \E fault \in {<<"none">>} \cup MayFail(
                   {<<"control", i>> : i \in 1..Len(debs)}
                   \cup {<<"stat", i>> : i \in 1..Len(debs)}
                   \cup {<<"hash", i, h>> : i \in 1..Len(debs), h \in FaultHashes}) :
             /\ faults' = IF fault = <<"none">> THEN faults ELSE faults + 1
             /\ CASE fault[1] = "control" ->
                       /\ Exit(1, "Error listing contents", debs[fault[2]])
                       /\ fsFiles' = written(fault[2] - 1)
                       /\ UNCHANGED <<archQueue, damaged>>
                  [] fault[1] \in {"stat", "hash"} ->
                       /\ fsFiles' = WritePackages(archDirPath, component, fsFiles, fault[2],
                                        IF fault[1] = "stat" THEN <<"stat">>
                                        ELSE <<"hash", fault[3]>>)
                       /\ archQueue' = Tail(archQueue)
                       /\ damaged' = Append(damaged, debs[fault[2]])
                       /\ UNCHANGED <<pc, exitCode, stderr>>
                  [] OTHER ->
                       /\ fsFiles' = WritePackages(archDirPath, component, fsFiles, 0, <<>>)
                       /\ archQueue' = Tail(archQueue)
                       /\ UNCHANGED <<pc, exitCode, stderr, damaged>>
    /\ UNCHANGED <<config, fsDirs, COMPONENTS, encounteredArches, debsInPath, next,
                   compIdx, placed, removed>>

\* main, lines 285-288: the content indexes of the component compressed, and
\* on to the next component.
CompressContents ==
    /\ pc = "index"
    /\ archQueue = <<>>
    /\ LET component == COMPONENTS[compIdx]
           contentsFiles == glob(Join(<<distributionPath, component, <<"Contents-*">>>>),
                                 fsDirs \cup DOMAIN fsFiles)
       IN  \E fault \in {"none"} \cup MayFail({"compress"}) :
             IF fault = "compress"
             THEN /\ Exit(1, "Error opening input file for xz compression",
                          IF contentsFiles = <<>> THEN <<>> ELSE Head(contentsFiles))
                  /\ contentsFiles # <<>>
                  /\ faults' = faults + 1
                  /\ UNCHANGED <<fsFiles, compIdx, archQueue>>
             ELSE /\ fsFiles' = CompressAll(contentsFiles, fsFiles)
                  /\ compIdx' = compIdx + 1
                  /\ archQueue' = ArchDirsOf(compIdx + 1, COMPONENTS, fsFiles', fsDirs)
                  /\ pc' = IF compIdx = Len(COMPONENTS) THEN "tables" ELSE "index"
                  /\ UNCHANGED <<exitCode, stderr, faults>>
    /\ UNCHANGED <<config, fsDirs, COMPONENTS, encounteredArches, debsInPath, next,
                   placed, removed, damaged>>

\* main, lines 290-338: the component set read back from the distribution
\* directory, the Components line and the digest tables; with --sign gpg
\* writes InRelease, and its failure is ignored; the run ends with exit code 0.
WriteTables ==
    /\ pc = "tables"
    /\ COMPONENTS' = NamesAsPaths(filterDirs(distributionPath, fsDirs))
    /\ LET release == ReleaseComplete(fsFiles[releaseFilePath], COMPONENTS',
                                      fsFiles, fsDirs)
           files == WriteFile(releaseFilePath, release, fsFiles)
       IN  \E signRepo \in BOOLEAN, signed \in BOOLEAN :
             fsFiles' = IF signRepo /\ signed
                        THEN WriteFile(Join(<<distributionPath, <<"InRelease">>>>),
                                       [kind |-> "signed", of |-> release], files)
                        ELSE files
    /\ pc' = "done"
    /\ exitCode' = 0
    /\ UNCHANGED <<config, fsDirs, encounteredArches, debsInPath, next, compIdx,
                   archQueue, stderr, faults, placed, removed, damaged>>

Next ==
    \/ Start
    \/ AddDeb
    \/ CreateRelease
    \/ GenPackages
    \/ CompressContents
    \/ WriteTables

Spec == Init /\ [][Next]_vars

(* ------------------------------ properties ---------------------------- *)

\* The component the layout gives a package: the name of its parent
\* directory below the input directory, the default one for a package of the
\* input directory itself.
ExpectedComponent(debPath) ==
    LET rel == Segments(SubSeq(debPath, Len(InputDir) + 1, Len(debPath)))
    IN  IF Len(rel) = 1 THEN defaultComponent ELSE <<rel[1]>>

\* The architecture a control record declares, "" when it declares none.
DeclaredArch(deb) ==
    LET at == {i \in 1..Len(deb.control) : deb.control[i][1] = "Architecture"}
    IN  IF at = {} THEN "" ELSE deb.control[CHOOSE i \in at : \A j \in at : i <= j][2]

DeclaresPackage(deb) == \E i \in 1..Len(deb.control) : deb.control[i][1] = "Package"

\* The run has ended in the tree-building pass, at the package at index next.
DiedPlacing == pc = "exit" /\ debsInPath # <<>> /\ next <= Len(debsInPath)

\* The run has ended in the index pass.
DiedIndexing ==
    pc = "exit" /\ debsInPath # <<>> /\ next > Len(debsInPath)
    /\ stderr.msg # "Error creating Release file"

\* The Release file of this run, once it is complete.
Manifest == fsFiles[releaseFilePath]

\* The generated artifacts in the output tree.
Artifacts ==
    {p \in DOMAIN fsFiles : Last(p) \in {"Packages", "Packages.xz"} \cup ContentsNames}

\* A row names an artifact by its path, relative to the distribution
\* directory or not.
RowNames(row, artifact) ==
    row.path = artifact \/ Join(<<distributionPath, row.path>>) = artifact

\* C1: every package placed is placed under the component that is the name
\* of its parent directory relative to the input root, the default component
\* for a package of the input root, whatever the form of --input: at
\* <dist>/<component>/binary-<arch>/<file>.
C1_ComponentIsParentDirectory ==
    \A j \in 1..Len(placed) :
        /\ placed[j].component = ExpectedComponent(placed[j].deb)
        /\ placed[j].dest = Join(<<distributionPath, ExpectedComponent(placed[j].deb),
                                   <<"binary-" \o placed[j].arch>>,
                                   <<Base(placed[j].deb)>>>>)

\* C2: after a successful run each digest table of Release holds exactly one
\* row for every generated artifact in the tree (Packages, Packages.xz and
\* the content indexes, plain and compressed) and no other row.
C2_TablesCoverEveryArtifactOnce ==
    pc = "done" =>
        \A h \in {hashString(hashes[i]) : i \in 1..Len(hashes)} :
            LET rows == SelectSeq(Manifest.rows, LAMBDA r : r.hash = h)
            IN  /\ \A a \in Artifacts :
                      Cardinality({i \in 1..Len(rows) : RowNames(rows[i], a)}) = 1
                /\ \A i \in 1..Len(rows) : \E a \in Artifacts : RowNames(rows[i], a)

\* C3: a deletion in a run removes the directory of the component the
\* package being processed belongs to, that package is the first of its
\* component, and no directory is deleted twice; the directory an earlier run
\* left for a component is deleted when the first package of the component
\* is placed; and what the run has placed is still there.
C3_ComponentDeletedOnFirstSightOnly ==
    /\ \A i \in 1..Len(removed) :
          LET c == ExpectedComponent(debsInPath[removed[i].at])
          IN  /\ removed[i].path = Join(<<distributionPath, c>>)
              /\ \A k \in 1..(removed[i].at - 1) : ExpectedComponent(debsInPath[k]) # c
              /\ \A k \in 1..Len(removed) : removed[k].path = removed[i].path => k = i
    /\ \A j \in 1..Len(placed) :
          LET c == ExpectedComponent(placed[j].deb)
              first == \A k \in 1..(j - 1) : ExpectedComponent(placed[k].deb) # c
          IN  /\ (first /\ c[1] \in prior) =>
                     \E i \in 1..Len(removed) :
                         /\ removed[i].path = Join(<<distributionPath, c>>)
                         /\ debsInPath[removed[i].at] = placed[j].deb
              /\ pc \in {"place", "release", "exit"} => placed[j].dest \in DOMAIN fsFiles

\* C4: the run never goes past a package that declares an unsupported
\* architecture; it ends there with exit code 1, with no directory, package
\* file or content index of that architecture, the architecture not
\* registered, the packages placed before still in place and Release not
\* written by this run.
C4_UnsupportedArchEndsRun ==
    LET bad(k) == LET a == DeclaredArch(inFiles[debsInPath[k]])
                  IN  a # "" /\ ~contains(supportedArches, a)
    IN  /\ \A k \in 1..Len(debsInPath) : k < next => ~bad(k)
        /\ (DiedPlacing /\ bad(next)) =>
              LET a == DeclaredArch(inFiles[debsInPath[next]])
              IN  /\ exitCode = 1
                  /\ \A p \in fsDirs \cup DOMAIN fsFiles :
                         \A i \in 1..Len(p) :
                             p[i] \notin {"binary-" \o a, "Contents-" \o a}
                  /\ a \notin encounteredArches
                  /\ \A j \in 1..Len(placed) : placed[j].dest \in DOMAIN fsFiles
                  /\ releaseFilePath \in DOMAIN fsFiles
                         => fsFiles[releaseFilePath].run = "previous"

\* The regular files of a package, as the content index shows them: the
\* entries that are no directories, without the leading "./".
RegularFiles(deb) ==
    LET files == SelectSeq(deb.data, LAMBDA e : Last(e) # Sep)
    IN  [i \in 1..Len(files) |->
            Interleave(SelectSeq(files[i], LAMBDA t : t \notin {Sep, "."}))]

RECURSIVE OwnRows(_, _, _)
\* The rows of the packages placed into a component and architecture, in
\* the order they were placed, each package with its own files and name.
OwnRows(log, component, arch) ==
    IF log = <<>> THEN <<>>
    ELSE LET deb == inFiles[Head(log).deb]
             files == RegularFiles(deb)
         IN  (IF Head(log).component = component /\ Head(log).arch = arch
              THEN [i \in 1..Len(files) |->
                       [path |-> files[i],
                        pkg |-> deb.control[CHOOSE k \in 1..Len(deb.control) :
                                              deb.control[k][1] = "Package"][2]]]
              ELSE <<>>)
             \o OwnRows(Tail(log), component, arch)

\* C5: at the end of a successful run the content index of every component
\* and architecture the run placed a package into holds exactly the rows of
\* those packages: one per package and regular file of it, in the order the
\* packages were processed, with no directory entry and no row of an
\* earlier run.
C5_ContentIndexHoldsOwnRows ==
    pc = "done" =>
        \A j \in 1..Len(placed) :
            LET index == Join(<<distributionPath, placed[j].component,
                                <<"Contents-" \o placed[j].arch>>>>)
            IN  /\ index \in DOMAIN fsFiles
                /\ fsFiles[index].rows = OwnRows(placed, placed[j].component, placed[j].arch)

\* C6: every row of the digest tables names its artifact by a path relative
\* to the distribution directory: the path does not start at the output
\* root, and below the distribution directory it is the artifact's.
C6_RowsAreRelativeToDistribution ==
    pc = "done" =>
        \A i \in 1..Len(Manifest.rows) :
            /\ ~HasPrefix(Manifest.rows[i].path, outputPath)
            /\ Join(<<distributionPath, Manifest.rows[i].path>>) \in Artifacts

\* C7: a package that cannot be stat'ed or hashed while the indexes are
\* generated ends the run with a non-zero exit code: no run ends
\* successfully after such a failure, and every entry of every Packages file
\* carries the size and the digests of the materialized file it names.
C7_IndexFailureIsFatal ==
    /\ pc = "done" => damaged = <<>>
    /\ \A p \in DOMAIN fsFiles :
          fsFiles[p].kind = "packages" =>
              \A i \in 1..Len(fsFiles[p].entries) :
                  LET e == fsFiles[p].entries[i]
                      f == Join(<<outputPath, e.filename>>)
                  IN  /\ f \in DOMAIN fsFiles
                      /\ e.size = SizeOf(fsFiles[f])
                      /\ \A h \in DOMAIN e.digests :
                             e.digests[h] = hashFile(h, f, fsFiles, FALSE)

\* C8: a package whose control text has no Package line or no Architecture
\* line ends the run as an unsupported architecture does: exit code 1 and a
\* message that names the file, with nothing placed for the package.
C8_MissingFieldIsReported ==
    (/\ DiedPlacing
     /\ stderr.msg # "Error listing contents"
     /\ LET deb == inFiles[debsInPath[next]]
        IN  ~DeclaresPackage(deb) \/ DeclaredArch(deb) = "") =>
        /\ exitCode = 1
        /\ stderr.file = Base(debsInPath[next])
        /\ \A j \in 1..Len(placed) : placed[j].deb # debsInPath[next]

\* C9: Release is created, truncated or written only after the index pass:
\* while the indexes are generated, and when the run ends in that pass, the
\* Release file is still the one the earlier run left, or there is none.
C9_ReleaseWrittenAfterIndexes ==
    (pc = "index" \/ DiedIndexing) =>
        IF releaseFilePath \in DOMAIN PriorFiles(prior)
        THEN /\ releaseFilePath \in DOMAIN fsFiles
             /\ fsFiles[releaseFilePath] = PriorFiles(prior)[releaseFilePath]
        ELSE releaseFilePath \notin DOMAIN fsFiles

\* The architectures the digest tables have rows for: those of the binary-*
\* directories the rows name.
TableArches ==
    {a \in ArchNames :
        \E i \in 1..Len(Manifest.rows) :
            \E k \in 1..Len(Manifest.rows[i].path) :
                Manifest.rows[i].path[k] = "binary-" \o a}

ListedArches == {Manifest.archs[i] : i \in 1..Len(Manifest.archs)}

\* C10, as claimed: in the Release of a successful run an architecture is on
\* the Architectures line if and only if the digest tables have rows for a
\* binary-<arch> directory of it. Stated for the runs that placed every
\* package under its own component, so that the misplacement of root-level
\* packages (C1) plays no part in what refutes it.
C10_ArchitecturesAgreeWithTables ==
    (pc = "done" /\ C1_ComponentIsParentDirectory) => ListedArches = TableArches

\* C10, amended: in the Release of a successful run the Architectures line
\* lists, sorted and without repetition, exactly the architectures of the
\* packages this run placed, and each of them has a binary-<arch> directory
\* in the tree with a Packages file; the digest tables, read from the tree,
\* need not agree with the line.
C10_ArchitecturesAreThoseOfThisRun ==
    pc = "done" =>
        /\ ListedArches = {placed[j].arch : j \in 1..Len(placed)}
        /\ Manifest.archs = SortNames(ListedArches)
        /\ \A a \in ListedArches :
               \E p \in DOMAIN fsFiles :
                   /\ Last(p) = "Packages"
                   /\ p[Len(p) - 2] = "binary-" \o a

\* A successful run over a tree in which an earlier run left a component
\* this run did not touch, whose architecture no package of this run has.
C10_Witness ==
    /\ pc = "done"
    /\ "old" \in prior
    /\ Join(<<distributionPath, <<"old">>>>) \in fsDirs
    /\ ListedArches # {}
    /\ TableArches \ ListedArches # {}

=============================================================================
